---- MODULE Spec2Model ----
(***************************************************************************)
(* Model of server/app.py: a Flask service with GET /health and            *)
(* POST /send-report.  send_report validates four JSON fields, builds a    *)
(* subject, a sanitised attachment filename and a base64 attachment, and   *)
(* calls the external send_email capability once.                          *)
(*                                                                         *)
(* Text that comes from the client (field values, filename, subject,       *)
(* attachment content) is a sequence of Unicode code points, so that the   *)
(* character filter, the UTF-8 encoder and the base64 encoder work on the  *)
(* characters as the code does.  Fixed texts of the code that are never    *)
(* inspected character by character (error texts, field names) are TLA+    *)
(* strings.                                                                *)
(*                                                                         *)
(* Not modelled: the timestamps (datetime.now()) in the responses and in   *)
(* the e-mail body, the CORS headers and the port binding.                 *)
(***************************************************************************)
EXTENDS Integers, Sequences, FiniteSets, TLC

(***************************************************************************)
(* Bounds of the model.                                                    *)
(***************************************************************************)
NumReqs == 2        \* request slots handled concurrently
MaxNameLen == 2     \* longest programName / organizationName string
MaxHtmlLen == 2     \* longest htmlContent string (in code points)
MaxHealth == 1      \* number of GET /health requests in one behaviour

Reqs == 1..NumReqs

(***************************************************************************)
(* JSON values of a field.  "absent" is a key that is not in the object.   *)
(* Every value has the same three components so that any two compare.      *)
(***************************************************************************)
Absent == [t |-> "absent", n |-> 0, s |-> <<>>]
Null == [t |-> "null", n |-> 0, s |-> <<>>]
Num(k) == [t |-> "num", n |-> k, s |-> <<>>]
Str(cs) == [t |-> "str", n |-> 0, s |-> cs]

\* Python truthiness, as used by `not data.get(field)`; dict.get gives None
\* for an absent key.
Truthy(v) ==
    CASE v.t = "absent" -> FALSE
      [] v.t = "null" -> FALSE
      [] v.t = "num" -> v.n # 0
      [] v.t = "str" -> Len(v.s) > 0

\* Decimal digits of a natural number, as code points.
RECURSIVE Digits(_)
Digits(k) == IF k < 10 THEN <<48 + k>> ELSE Digits(k \div 10) \o <<48 + (k % 10)>>

\* format(v) inside an f-string: a str is itself, a number its digits.
\* Only truthy values are ever formatted (validation comes first).
Format(v) ==
    CASE v.t = "str" -> v.s
      [] v.t = "num" -> Digits(v.n)
      [] OTHER -> <<78, 111, 110, 101>>      \* "None"

(***************************************************************************)
(* Filename sanitisation, line 65-66.                                      *)
(***************************************************************************)
\* Code points of the model's alphabets that str.isalnum() accepts beyond
\* ASCII: U+00E9 (e acute).  U+20AC, U+D800 and U+1F600 are not alphanumeric.
UnicodeAlnum == {233}

isalnum(c) == c \in (48..57) \cup (65..90) \cup (97..122) \cup UnicodeAlnum

\* c.isalnum() or c in "._-"
keep(c) == isalnum(c) \/ c \in {46, 95, 45}

\* "".join(c for c in filename if ...)
RECURSIVE join_filter_subst(_)
join_filter_subst(cs) ==
    IF cs = <<>> THEN <<>>
    ELSE <<(IF keep(Head(cs)) THEN Head(cs) ELSE 95)>> \o join_filter_subst(Tail(cs))
RECURSIVE join_filter(_)
join_filter(cs) ==
    IF cs = <<>> THEN <<>>
    ELSE (IF keep(Head(cs)) THEN <<Head(cs)>> ELSE <<>>) \o join_filter(Tail(cs))

Underscore == <<95>>
\* "_Evaluation_Plan.html"
FilenameSuffix ==
    <<95, 69, 118, 97, 108, 117, 97, 116, 105, 111, 110, 95, 80, 108, 97, 110,
      46, 104, 116, 109, 108>>

\* f"{organization_name}_{program_name}_Evaluation_Plan.html"
raw_filename(organization_name, program_name) ==
    Format(organization_name) \o Underscore \o Format(program_name) \o FilenameSuffix

make_filename(organization_name, program_name) ==
    join_filter(raw_filename(organization_name, program_name))

(***************************************************************************)
(* UTF-8 and base64, line 69-70.                                           *)
(***************************************************************************)
IsSurrogate(c) == c \in 55296..57343

\* str.encode('utf-8') of one code point (surrogates are refused, below).
utf8_char(c) ==
    IF c < 128 THEN <<c>>
    ELSE IF c < 2048 THEN <<192 + (c \div 64), 128 + (c % 64)>>
    ELSE IF c < 65536 THEN
        <<224 + (c \div 4096), 128 + ((c \div 64) % 64), 128 + (c % 64)>>
    ELSE <<240 + (c \div 262144), 128 + ((c \div 4096) % 64),
           128 + ((c \div 64) % 64), 128 + (c % 64)>>

RECURSIVE utf8_encode(_)
utf8_encode(cs) ==
    IF cs = <<>> THEN <<>> ELSE utf8_char(Head(cs)) \o utf8_encode(Tail(cs))

\* html_content.encode('utf-8') raises for a non-str value (AttributeError)
\* and for a str holding a lone surrogate (UnicodeEncodeError).
encode_raises(v) == v.t # "str" \/ \E i \in 1..Len(v.s) : IsSurrogate(v.s[i])

encode_error(v) ==
    IF v.t # "str" THEN "'int' object has no attribute 'encode'"
    ELSE "'utf-8' codec can't encode character: surrogates not allowed"

\* The base64 alphabet: index 0..63 to the code point of its character.
b64_char(i) ==
    IF i < 26 THEN 65 + i
    ELSE IF i < 52 THEN 97 + (i - 26)
    ELSE IF i < 62 THEN 48 + (i - 52)
    ELSE IF i = 62 THEN 43
    ELSE 47

Pad == 61       \* "="

\* base64.b64encode(bytes).decode('utf-8'): three bytes give four characters,
\* a last group of one or two bytes is padded with "=".
RECURSIVE b64encode_nopad(_)
b64encode_nopad(bs) ==
    IF Len(bs) = 0 THEN <<>>
    ELSE IF Len(bs) = 1 THEN
        <<b64_char(bs[1] \div 4), b64_char((bs[1] % 4) * 16)>>
    ELSE IF Len(bs) = 2 THEN
        <<b64_char(bs[1] \div 4),
          b64_char((bs[1] % 4) * 16 + (bs[2] \div 16)),
          b64_char((bs[2] % 16) * 4)>>
    ELSE
        <<b64_char(bs[1] \div 4),
          b64_char((bs[1] % 4) * 16 + (bs[2] \div 16)),
          b64_char((bs[2] % 16) * 4 + (bs[3] \div 64)),
          b64_char(bs[3] % 64)>> \o b64encode_nopad(SubSeq(bs, 4, Len(bs)))
RECURSIVE b64encode(_)
b64encode(bs) ==
    IF Len(bs) = 0 THEN <<>>
    ELSE IF Len(bs) = 1 THEN
        <<b64_char(bs[1] \div 4), b64_char((bs[1] % 4) * 16), Pad, Pad>>
    ELSE IF Len(bs) = 2 THEN
        <<b64_char(bs[1] \div 4),
          b64_char((bs[1] % 4) * 16 + (bs[2] \div 16)),
          b64_char((bs[2] % 16) * 4),
          Pad>>
    ELSE
        <<b64_char(bs[1] \div 4),
          b64_char((bs[1] % 4) * 16 + (bs[2] \div 16)),
          b64_char((bs[2] % 16) * 4 + (bs[3] \div 64)),
          b64_char(bs[3] % 64)>> \o b64encode(SubSeq(bs, 4, Len(bs)))

base64_content(html_content) == b64encode(utf8_encode(html_content.s))

(***************************************************************************)
(* Request bodies.  A body is absent, not parseable as JSON, a JSON value  *)
(* that is not an object (null, a list), or a JSON object; of an object    *)
(* only the four keys the handler reads matter.                            *)
(***************************************************************************)
required_fields == <<"email", "programName", "organizationName", "htmlContent">>

Fields == {required_fields[i] : i \in 1..Len(required_fields)}

Obj(e, p, o, h) ==
    [kind |-> "object",
     obj |-> [email |-> e, programName |-> p, organizationName |-> o, htmlContent |-> h]]

NonObject(k) == [kind |-> k, obj |-> [f \in Fields |-> Absent]]

NonObjectBodies == {NonObject(k) : k \in {"absent", "invalid", "null", "list"}}

\* Non-empty strings over alphabet A of at most n code points.
StringsUpTo(A, n) == UNION {[1..k -> A] : k \in 1..n}

\* "A", "-", "/", e acute
NameChars == {65, 45, 47, 233}
\* "<", "a", e acute (2 bytes), euro sign (3 bytes), a lone surrogate,
\* U+1F600 (4 bytes)
HtmlChars == {60, 97, 233, 8364, 55296, 128512}

Names == StringsUpTo(NameChars, MaxNameLen)
Htmls == StringsUpTo(HtmlChars, MaxHtmlLen)

\* Field values that exercise the validation: absent, null, "", 0 (falsy),
\* 5 (truthy, not a string), "a".
FieldVals == {Absent, Null, Str(<<>>), Num(0), Num(5), Str(<<97>>)}

ValidationBodies == {Obj(e, p, o, h) : e \in FieldVals, p \in FieldVals,
                                       o \in FieldVals, h \in FieldVals}
NameBodies == {Obj(Str(<<97>>), Str(p), Str(o), Str(<<60>>)) : p \in Names, o \in Names}
HtmlBodies == {Obj(Str(<<97>>), Str(<<65>>), Str(<<49>>), Str(h)) : h \in Htmls}

AllBodies == NonObjectBodies \cup ValidationBodies \cup NameBodies \cup HtmlBodies

\* The bodies of the concurrent specification: one of each path through the
\* handler, and well-formed bodies that differ in every field.
SmallBodies ==
    {NonObject("null"),
     Obj(Str(<<97>>), Str(<<65>>), Str(<<>>), Absent),
     Obj(Str(<<97>>), Str(<<65>>), Str(<<49>>), Num(5)),
     Obj(Str(<<97>>), Str(<<65, 32>>), Str(<<49, 47>>), Str(<<60, 233>>)),
     Obj(Str(<<98>>), Str(<<66>>), Str(<<50>>), Str(<<8364>>))}

\* Error texts the mail capability may raise with.
MailErrors == {"SMTP timeout", "Connection refused"}

(***************************************************************************)
(* State.                                                                  *)
(***************************************************************************)
VARIABLES
    pc,             \* pc[r]: position of the handler of request r
    body,           \* body[r]: the body request r carries
    exc,            \* exc[r]: str(e) of the exception raised in the try block
    resp,           \* resp[r]: the response to request r (code 0: none yet)
    mailCalls,      \* mailCalls[r]: the send_email calls made for request r
    healthCount,    \* number of GET /health requests answered
    healthResp,     \* the last GET /health response
    healthSeen      \* history: whether a send-report request had already
                    \* been answered 500 when healthResp was produced

vars == <<pc, body, exc, resp, mailCalls, healthCount, healthResp, healthSeen>>

NoResp == [code |-> 0, error |-> "", success |-> FALSE, message |-> <<>>]
NoHealth == [code |-> 0, status |-> ""]

Init ==
    /\ pc = [r \in Reqs |-> "idle"]
    /\ body = [r \in Reqs |-> NonObject("absent")]
    /\ exc = [r \in Reqs |-> ""]
    /\ resp = [r \in Reqs |-> NoResp]
    /\ mailCalls = [r \in Reqs |-> <<>>]
    /\ healthCount = 0
    /\ healthResp = NoHealth
    /\ healthSeen = FALSE

(***************************************************************************)
(* GET /health, line 26-28.                                                *)
(***************************************************************************)
health_response_degraded ==
    IF \E r \in Reqs : resp[r].code = 500
    THEN [code |-> 500, status |-> "unhealthy"]
    ELSE [code |-> 200, status |-> "healthy"]
health_response == [code |-> 200, status |-> "healthy"]

health_check ==
    /\ healthCount < MaxHealth
    /\ healthCount' = healthCount + 1
    /\ healthResp' = health_response
    /\ healthSeen' = (\E r \in Reqs : resp[r].code = 500)
    /\ UNCHANGED <<pc, body, exc, resp, mailCalls>>

(***************************************************************************)
(* POST /send-report, line 30-95.                                          *)
(***************************************************************************)
\* A request with a body drawn from B reaches the handler.
Receive(r, B) ==
    /\ pc[r] = "idle"
    /\ \E b \in B : body' = [body EXCEPT ![r] = b]
    /\ pc' = [pc EXCEPT ![r] = "received"]
    /\ UNCHANGED <<exc, resp, mailCalls, healthCount, healthResp, healthSeen>>

\* request.get_json(): the body of the current request, context-local.
\* It raises (werkzeug HTTPException) when the body is absent or is not
\* JSON, and returns the parsed value otherwise.
get_json_first(r) == body[1]
get_json(r) == body[r]

get_json_raises(b) == b.kind \in {"absent", "invalid"}

get_json_error(b) ==
    IF b.kind = "absent" THEN "415 Unsupported Media Type"
    ELSE "400 Bad Request"

\* data.get raises AttributeError when data is not a dict.
get_error(b) ==
    IF b.kind = "null" THEN "'NoneType' object has no attribute 'get'"
    ELSE "'list' object has no attribute 'get'"

\* for field in required_fields: if not data.get(field): return ...
\* The first field, from index i on, that is not truthy; "" when none.
RECURSIVE first_missing_last(_, _)
first_missing_last(o, i) ==
    IF i > Len(required_fields) THEN ""
    ELSE IF first_missing_last(o, i + 1) # "" THEN first_missing_last(o, i + 1)
    ELSE IF ~Truthy(o[required_fields[i]]) THEN required_fields[i]
    ELSE ""
RECURSIVE first_missing(_, _)
first_missing(o, i) ==
    IF i > Len(required_fields) THEN ""
    ELSE IF ~Truthy(o[required_fields[i]]) THEN required_fields[i]
    ELSE first_missing(o, i + 1)

error_400(field) ==
    [code |-> 400, error |-> "Missing required field: " \o field,
     success |-> FALSE, message |-> <<>>]

Raise(r, msg) ==
    /\ pc' = [pc EXCEPT ![r] = "except"]
    /\ exc' = [exc EXCEPT ![r] = msg]

\* Line 33-39: parse the body and check the required fields.
validate_after_send(r) ==
    /\ pc[r] = "received"
    /\ LET data == get_json(r) IN
        IF get_json_raises(data) THEN
            Raise(r, get_json_error(data)) /\ UNCHANGED <<resp, mailCalls>>
        ELSE IF data.kind # "object" THEN
            Raise(r, get_error(data)) /\ UNCHANGED <<resp, mailCalls>>
        ELSE IF first_missing(data.obj, 1) # "" THEN
            /\ resp' = [resp EXCEPT ![r] = error_400(first_missing(data.obj, 1))]
            /\ mailCalls' = [mailCalls EXCEPT ![r] =
                  Append(@, [to |-> data.obj["email"], subject |-> <<>>,
                             text |-> [program |-> <<>>, organization |-> <<>>],
                             attachments |-> <<>>, outcome |-> "returned",
                             error |-> ""])]
            /\ pc' = [pc EXCEPT ![r] = "responded"]
            /\ UNCHANGED exc
        ELSE
            /\ pc' = [pc EXCEPT ![r] = "validated"]
            /\ UNCHANGED <<exc, resp, mailCalls>>
    /\ UNCHANGED <<body, healthCount, healthResp, healthSeen>>
validate(r) ==
    /\ pc[r] = "received"
    /\ LET data == get_json(r) IN
        IF get_json_raises(data) THEN
            Raise(r, get_json_error(data)) /\ UNCHANGED resp
        ELSE IF data.kind # "object" THEN
            Raise(r, get_error(data)) /\ UNCHANGED resp
        ELSE IF first_missing(data.obj, 1) # "" THEN
            /\ resp' = [resp EXCEPT ![r] = error_400(first_missing(data.obj, 1))]
            /\ pc' = [pc EXCEPT ![r] = "responded"]
            /\ UNCHANGED exc
        ELSE
            /\ pc' = [pc EXCEPT ![r] = "validated"]
            /\ UNCHANGED <<exc, resp>>
    /\ UNCHANGED <<body, mailCalls, healthCount, healthResp, healthSeen>>

\* "Evaluation Plan for "
SubjectPrefix ==
    <<69, 118, 97, 108, 117, 97, 116, 105, 111, 110, 32, 80, 108, 97, 110, 32,
      102, 111, 114, 32>>
\* " - "
SubjectSep == <<32, 45, 32>>

\* f"Evaluation Plan for {program_name} - {organization_name}"
make_subject_swapped(program_name, organization_name) ==
    SubjectPrefix \o Format(organization_name) \o SubjectSep \o Format(program_name)
make_subject(program_name, organization_name) ==
    SubjectPrefix \o Format(program_name) \o SubjectSep \o Format(organization_name)

\* The e-mail body is a fixed template; only its two interpolated names are
\* kept (the generation time is not modelled).
email_body(program_name, organization_name) ==
    [program |-> Format(program_name), organization |-> Format(organization_name)]

\* The arguments of the send_email call, line 73-83.
mail_call(user_email, program_name, organization_name, html_content) ==
    [to |-> user_email,
     subject |-> make_subject(program_name, organization_name),
     text |-> email_body(program_name, organization_name),
     attachments |-> <<[filename |-> make_filename(organization_name, program_name),
                        content |-> base64_content(html_content),
                        contentType |-> "text/html",
                        encoding |-> "base64"]>>,
     outcome |-> "pending",
     error |-> ""]

\* Line 42-83: extract the fields, build the message and call send_email.
\* The call is in flight until the capability returns or raises.
build_and_send(r) ==
    /\ pc[r] = "validated"
    /\ LET data == get_json(r).obj
           user_email == data["email"]
           program_name == data["programName"]
           organization_name == data["organizationName"]
           html_content == data["htmlContent"]
       IN  IF encode_raises(html_content) THEN
               /\ Raise(r, encode_error(html_content))
               /\ UNCHANGED mailCalls
           ELSE
               /\ mailCalls' = [mailCalls EXCEPT ![r] =
                     Append(@, mail_call(user_email, program_name,
                                         organization_name, html_content))]
               /\ pc' = [pc EXCEPT ![r] = "sending"]
               /\ UNCHANGED exc
    /\ UNCHANGED <<body, resp, healthCount, healthResp, healthSeen>>

\* The call in flight is the last one made for r.
SetOutcome(r, o, m) ==
    mailCalls' = [mailCalls EXCEPT ![r][Len(mailCalls[r])].outcome = o,
                                   ![r][Len(mailCalls[r])].error = m]

\* send_email returns normally.
send_email_returns(r) ==
    /\ pc[r] = "sending"
    /\ SetOutcome(r, "returned", "")
    /\ pc' = [pc EXCEPT ![r] = "sent"]
    /\ UNCHANGED <<body, exc, resp, healthCount, healthResp, healthSeen>>

\* send_email raises an exception e with str(e) = m.
send_email_raises(r) ==
    /\ pc[r] = "sending"
    /\ \E m \in MailErrors :
        /\ SetOutcome(r, "raised", m)
        /\ Raise(r, m)
    /\ UNCHANGED <<body, resp, healthCount, healthResp, healthSeen>>

\* "Email sent successfully to "
SuccessPrefix ==
    <<69, 109, 97, 105, 108, 32, 115, 101, 110, 116, 32, 115, 117, 99, 99, 101,
      115, 115, 102, 117, 108, 108, 121, 32, 116, 111, 32>>

success_200(user_email) ==
    [code |-> 200, error |-> "", success |-> TRUE,
     message |-> SuccessPrefix \o Format(user_email)]

\* Line 85-89: the success response.
respond_early(r) ==
    /\ pc[r] \in {"sending", "sent"}
    /\ resp' = [resp EXCEPT ![r] = success_200(get_json(r).obj["email"])]
    /\ pc' = [pc EXCEPT ![r] = "responded"]
    /\ UNCHANGED <<body, exc, mailCalls, healthCount, healthResp, healthSeen>>
respond(r) ==
    /\ pc[r] = "sent"
    /\ resp' = [resp EXCEPT ![r] = success_200(get_json(r).obj["email"])]
    /\ pc' = [pc EXCEPT ![r] = "responded"]
    /\ UNCHANGED <<body, exc, mailCalls, healthCount, healthResp, healthSeen>>

error_500(msg) ==
    [code |-> 500, error |-> "Failed to send email: " \o msg,
     success |-> FALSE, message |-> <<>>]

\* Line 91-95: every exception raised in the try block ends here.
handle_exception_retry(r) ==
    /\ pc[r] = "except"
    /\ IF mailCalls[r] # <<>> /\ Len(mailCalls[r]) < 2
       THEN /\ mailCalls' = [mailCalls EXCEPT ![r] =
                   Append(@, [@[1] EXCEPT !.outcome = "pending", !.error = ""])]
            /\ pc' = [pc EXCEPT ![r] = "sending"]
            /\ UNCHANGED resp
       ELSE /\ resp' = [resp EXCEPT ![r] = error_500(exc[r])]
            /\ pc' = [pc EXCEPT ![r] = "responded"]
            /\ UNCHANGED mailCalls
    /\ UNCHANGED <<body, exc, healthCount, healthResp, healthSeen>>
handle_exception(r) ==
    /\ pc[r] = "except"
    /\ resp' = [resp EXCEPT ![r] = error_500(exc[r])]
    /\ pc' = [pc EXCEPT ![r] = "responded"]
    /\ UNCHANGED <<body, exc, mailCalls, healthCount, healthResp, healthSeen>>

(***************************************************************************)
(* Specifications.  Spec: NumReqs requests handled concurrently (the       *)
(* development server runs one thread per request), bodies drawn from      *)
(* SmallBodies.  SpecSeq: the handling of one POST /send-report request,  *)
(* bodies drawn from AllBodies.                                            *)
(***************************************************************************)
Next ==
    \/ health_check
    \/ \E r \in Reqs : Receive(r, SmallBodies)
    \/ \E r \in Reqs : validate(r)
    \/ \E r \in Reqs : build_and_send(r)
    \/ \E r \in Reqs : send_email_returns(r)
    \/ \E r \in Reqs : send_email_raises(r)
    \/ \E r \in Reqs : respond(r)
    \/ \E r \in Reqs : handle_exception(r)

Spec == Init /\ [][Next]_vars

NextSeq ==
    \/ Receive(1, AllBodies)
    \/ validate(1)
    \/ build_and_send(1)
    \/ send_email_returns(1)
    \/ send_email_raises(1)
    \/ respond(1)
    \/ handle_exception(1)

SpecSeq == Init /\ [][NextSeq]_vars

TypeOK ==
    /\ pc \in [Reqs -> {"idle", "received", "validated", "sending", "sent",
                        "except", "responded"}]
    /\ \A r \in Reqs : Len(mailCalls[r]) <= 1
    /\ healthCount \in 0..MaxHealth

(***************************************************************************)
(* Reference definitions used by the properties: the inverse conversions   *)
(* (RFC 4648 base64 decoding, UTF-8 decoding) and the vocabulary of the    *)
(* specification.                                                          *)
(***************************************************************************)
\* A field is missing or empty: absent key, null, empty string, zero.
IsMissing(v) == v \in {Absent, Null, Str(<<>>), Num(0)}

CheckOrder == <<"email", "programName", "organizationName", "htmlContent">>

WellFormed(b) ==
    b.kind = "object" /\ \A i \in 1..Len(CheckOrder) : ~IsMissing(b.obj[CheckOrder[i]])

B64Index(c) ==
    IF c \in 65..90 THEN c - 65
    ELSE IF c \in 97..122 THEN c - 71
    ELSE IF c \in 48..57 THEN c + 4
    ELSE IF c = 43 THEN 62
    ELSE 63

Invalid == <<-1>>

\* Strict base64 decoding: the input is a whole number of 4-character
\* groups; "=" only pads the last group.
RECURSIVE B64Decode(_)
B64Decode(cs) ==
    IF Len(cs) = 0 THEN <<>>
    ELSE IF Len(cs) < 4 THEN Invalid
    ELSE LET a == B64Index(cs[1])
             b == B64Index(cs[2])
             c == B64Index(cs[3])
             d == B64Index(cs[4])
         IN  IF cs[3] = 61 /\ cs[4] = 61 THEN
                 IF Len(cs) = 4 THEN <<a * 4 + (b \div 16)>> ELSE Invalid
             ELSE IF cs[4] = 61 THEN
                 IF Len(cs) = 4
                 THEN <<a * 4 + (b \div 16), (b % 16) * 16 + (c \div 4)>>
                 ELSE Invalid
             ELSE <<a * 4 + (b \div 16), (b % 16) * 16 + (c \div 4), (c % 4) * 64 + d>>
                  \o B64Decode(SubSeq(cs, 5, Len(cs)))

RECURSIVE Utf8Decode(_)
Utf8Decode(bs) ==
    IF Len(bs) = 0 THEN <<>>
    ELSE IF bs[1] < 128 THEN <<bs[1]>> \o Utf8Decode(SubSeq(bs, 2, Len(bs)))
    ELSE IF bs[1] \in 192..223 /\ Len(bs) >= 2 THEN
        <<(bs[1] - 192) * 64 + (bs[2] - 128)>> \o Utf8Decode(SubSeq(bs, 3, Len(bs)))
    ELSE IF bs[1] \in 224..239 /\ Len(bs) >= 3 THEN
        <<(bs[1] - 224) * 4096 + (bs[2] - 128) * 64 + (bs[3] - 128)>>
        \o Utf8Decode(SubSeq(bs, 4, Len(bs)))
    ELSE IF bs[1] \in 240..247 /\ Len(bs) >= 4 THEN
        <<(bs[1] - 240) * 262144 + (bs[2] - 128) * 4096 + (bs[3] - 128) * 64
          + (bs[4] - 128)>> \o Utf8Decode(SubSeq(bs, 5, Len(bs)))
    ELSE Invalid

\* The characters a sanitised filename may hold: alphanumeric, ".", "_", "-".
Allowed(c) == isalnum(c) \/ c = 46 \/ c = 95 \/ c = 45

EndsWith(cs, suffix) ==
    /\ Len(cs) >= Len(suffix)
    /\ SubSeq(cs, Len(cs) - Len(suffix) + 1, Len(cs)) = suffix

Calls(r) == {mailCalls[r][i] : i \in 1..Len(mailCalls[r])}

(***************************************************************************)
(* C1.  A request whose JSON object lacks one of the four fields, or holds *)
(* a falsy value for it, is answered 400 with "Missing required field: f", *)
(* f the first such field in the order email, programName,                 *)
(* organizationName, htmlContent, whatever the other fields hold.          *)
(***************************************************************************)
C1_FirstMissingReported ==
    \A r \in Reqs :
        (pc[r] = "responded" /\ body[r].kind = "object") =>
            \A i \in 1..Len(CheckOrder) :
                (/\ IsMissing(body[r].obj[CheckOrder[i]])
                 /\ \A j \in 1..(i - 1) : ~IsMissing(body[r].obj[CheckOrder[j]]))
                => /\ resp[r].code = 400
                   /\ resp[r].error = "Missing required field: " \o CheckOrder[i]
                   /\ resp[r].success = FALSE

\* Answered: email is fine, programName is a number, organizationName is null
\* and htmlContent is missing too; organizationName is the one reported.
C1_Witness ==
    /\ pc[1] = "responded"
    /\ body[1] = Obj(Str(<<97>>), Num(5), Null, Absent)
    /\ resp[1].code = 400
    /\ resp[1].error = "Missing required field: organizationName"

(***************************************************************************)
(* C2.  A request answered 400 has made no send_email call.                *)
(***************************************************************************)
C2_NoSendOnValidationError ==
    \A r \in Reqs : resp[r].code = 400 => mailCalls[r] = <<>>

\* One request was rejected while the other one did send.
C2_Witness ==
    \E r, q \in Reqs :
        /\ resp[r].code = 400
        /\ pc[r] = "responded"
        /\ mailCalls[q] # <<>>

(***************************************************************************)
(* C3.  When send_email returns normally for a well-formed request, it was *)
(* called exactly once for it, the response is 200 with success true, and  *)
(* no response exists while the call is still in flight.                   *)
(***************************************************************************)
C3_OneSendThenSuccess ==
    \A r \in Reqs :
        /\ (\E c \in Calls(r) : c.outcome = "returned") =>
              /\ WellFormed(body[r])
              /\ Len(mailCalls[r]) = 1
              /\ pc[r] = "responded" => (resp[r].code = 200 /\ resp[r].success = TRUE)
              /\ resp[r].code \in {0, 200}
        /\ (\E c \in Calls(r) : c.outcome = "pending") => resp[r].code = 0
        /\ resp[r].code = 200 =>
              (Len(mailCalls[r]) = 1 /\ mailCalls[r][1].outcome = "returned")

C3_Witness ==
    \E r \in Reqs :
        /\ pc[r] = "responded"
        /\ WellFormed(body[r])
        /\ Len(mailCalls[r]) = 1
        /\ mailCalls[r][1].outcome = "returned"
        /\ resp[r].code = 200

(***************************************************************************)
(* C4.  When send_email raises with message m, the response is 500 with    *)
(* error "Failed to send email: " + m, and send_email is not called again  *)
(* for that request.                                                       *)
(***************************************************************************)
C4_FailureReportedNoRetry ==
    \A r \in Reqs :
        \A c \in Calls(r) :
            c.outcome = "raised" =>
                /\ Len(mailCalls[r]) = 1
                /\ resp[r].code \in {0, 500}
                /\ pc[r] = "responded" =>
                      /\ resp[r].code = 500
                      /\ resp[r].error = "Failed to send email: " \o c.error
                      /\ resp[r].success = FALSE

C4_Witness ==
    \E r \in Reqs :
        /\ pc[r] = "responded"
        /\ Len(mailCalls[r]) = 1
        /\ mailCalls[r][1].outcome = "raised"
        /\ mailCalls[r][1].error = "SMTP timeout"
        /\ resp[r].error = "Failed to send email: SMTP timeout"

(***************************************************************************)
(* C5.  The content of the attachment passed to send_email, base64-decoded,*)
(* is the UTF-8 encoding of the submitted htmlContent: decoding it as      *)
(* UTF-8 gives htmlContent back.                                           *)
(***************************************************************************)
C5_Base64RoundTrip ==
    \A r \in Reqs :
        \A c \in Calls(r) :
            /\ Len(c.attachments) = 1
            /\ body[r].obj["htmlContent"].t = "str"
            /\ B64Decode(c.attachments[1].content) # Invalid
            /\ Utf8Decode(B64Decode(c.attachments[1].content))
                  = body[r].obj["htmlContent"].s

\* "<" and the euro sign: four bytes, so the last base64 group is padded.
C5_Witness ==
    /\ mailCalls[1] # <<>>
    /\ body[1].obj["htmlContent"] = Str(<<60, 8364>>)
    /\ mailCalls[1][1].attachments[1].content = <<80, 79, 75, 67, 114, 65, 61, 61>>

(***************************************************************************)
(* C6.  The attachment filename is "{organizationName}_{programName}       *)
(* _Evaluation_Plan.html" with exactly the characters that are not         *)
(* alphanumeric, ".", "_" or "-" deleted and the others kept in order; so  *)
(* it holds only such characters and ends with "_Evaluation_Plan.html".    *)
(***************************************************************************)
C6_FilenameSanitised ==
    \A r \in Reqs :
        \A c \in Calls(r) :
            LET o == body[r].obj["organizationName"]
                p == body[r].obj["programName"]
                full == Format(o) \o <<95>> \o Format(p) \o
                        <<95, 69, 118, 97, 108, 117, 97, 116, 105, 111, 110, 95,
                          80, 108, 97, 110, 46, 104, 116, 109, 108>>
                name == c.attachments[1].filename
            IN  /\ name = SelectSeq(full, Allowed)
                /\ \A i \in 1..Len(name) : Allowed(name[i])
                /\ EndsWith(name, <<95, 69, 118, 97, 108, 117, 97, 116, 105, 111,
                                    110, 95, 80, 108, 97, 110, 46, 104, 116, 109,
                                    108>>)

\* organizationName "A/", programName "-A": the "/" is dropped, the "-" kept,
\* giving "A_-A_Evaluation_Plan.html".
C6_Witness ==
    /\ mailCalls[1] # <<>>
    /\ body[1].obj["organizationName"] = Str(<<65, 47>>)
    /\ body[1].obj["programName"] = Str(<<45, 65>>)
    /\ mailCalls[1][1].attachments[1].filename =
          <<65, 95, 45, 65, 95, 69, 118, 97, 108, 117, 97, 116, 105, 111, 110, 95,
            80, 108, 97, 110, 46, 104, 116, 109, 108>>

(***************************************************************************)
(* C7.  Every GET /health is answered 200 with status "healthy", whatever  *)
(* requests came before, and answering it makes no send_email call.        *)
(***************************************************************************)
C7_HealthAlwaysHealthy ==
    [][healthCount' # healthCount =>
          /\ healthResp'.code = 200
          /\ healthResp'.status = "healthy"
          /\ mailCalls' = mailCalls]_vars

\* A health check answered after a failed send, with a failed validation
\* around as well.
C7_Witness ==
    /\ healthCount > 0
    /\ healthSeen
    /\ healthResp.code = 200
    /\ \E r \in Reqs : resp[r].code = 400
    /\ \E r \in Reqs : \E c \in Calls(r) : c.outcome = "raised"

(***************************************************************************)
(* C8.  With requests handled concurrently, every send_email call made for *)
(* a request carries the recipient, subject, filename and content of that  *)
(* request's own body, and every response is the one its own body and its  *)
(* own mail outcome give.                                                  *)
(***************************************************************************)
OwnCall(b) ==
    mail_call(b.obj["email"], b.obj["programName"], b.obj["organizationName"],
              b.obj["htmlContent"])

C8_NoCrossRequestLeak ==
    \A r \in Reqs :
        /\ \A c \in Calls(r) :
              [c EXCEPT !.outcome = "pending", !.error = ""] = OwnCall(body[r])
        /\ resp[r].code = 200 =>
              /\ WellFormed(body[r])
              /\ resp[r].message = SuccessPrefix \o Format(body[r].obj["email"])
              /\ \E c \in Calls(r) : c.outcome = "returned"
        /\ resp[r].code = 400 =>
              \E i \in 1..Len(CheckOrder) :
                  /\ IsMissing(body[r].obj[CheckOrder[i]])
                  /\ resp[r].error = "Missing required field: " \o CheckOrder[i]
        /\ (resp[r].code = 500 /\ mailCalls[r] # <<>>) =>
              resp[r].error = "Failed to send email: " \o mailCalls[r][1].error

\* Two requests with different bodies were in flight together and both are
\* answered, one with success and one with a delivery error.
C8_Witness ==
    /\ NumReqs >= 2
    /\ body[1] # body[2]
    /\ resp[1].code = 200
    /\ resp[2].code = 500
    /\ mailCalls[1] # <<>>
    /\ mailCalls[2] # <<>>
    /\ mailCalls[1][1].to # mailCalls[2][1].to

(***************************************************************************)
(* C9.  send_email is called with the request's email as recipient, the    *)
(* subject "Evaluation Plan for {programName} - {organizationName}" and    *)
(* exactly one attachment, of content type text/html and encoding base64.  *)
(***************************************************************************)
C9_CallArguments ==
    \A r \in Reqs :
        /\ \A c \in Calls(r) :
              /\ WellFormed(body[r])
              /\ c.to = body[r].obj["email"]
              /\ c.subject =
                    <<69, 118, 97, 108, 117, 97, 116, 105, 111, 110, 32, 80, 108,
                      97, 110, 32, 102, 111, 114, 32>>
                    \o Format(body[r].obj["programName"]) \o <<32, 45, 32>>
                    \o Format(body[r].obj["organizationName"])
              /\ Len(c.attachments) = 1
              /\ c.attachments[1].contentType = "text/html"
              /\ c.attachments[1].encoding = "base64"
        /\ resp[r].code = 200 => Len(mailCalls[r]) = 1

\* programName "A/", organizationName "-": "Evaluation Plan for A/ - -".
C9_Witness ==
    /\ mailCalls[1] # <<>>
    /\ body[1].obj["programName"] = Str(<<65, 47>>)
    /\ mailCalls[1][1].subject = SubjectPrefix \o <<65, 47, 32, 45, 32, 45>>
    /\ body[1].obj["organizationName"] = Str(<<45>>)
    /\ mailCalls[1][1].to = Str(<<97>>)
    /\ resp[1].code = 200

(***************************************************************************)
(* C10.  A response of 500 is given only for a delivery error: whenever a  *)
(* request is answered 500, send_email was called for it and raised.       *)
(***************************************************************************)
C10_Only500OnDeliveryError ==
    \A r \in Reqs :
        resp[r].code = 500 =>
            /\ Len(mailCalls[r]) = 1
            /\ mailCalls[r][1].outcome = "raised"

(***************************************************************************)
(* What the code does instead: a 500 with no send_email call is exactly    *)
(* the answer to a body that is absent, not JSON or not an object, and to  *)
(* a well-formed object whose htmlContent cannot be encoded.               *)
(***************************************************************************)
Unsendable(b) ==
    \/ b.kind # "object"
    \/ /\ WellFormed(b)
       /\ \/ b.obj["htmlContent"].t # "str"
          \/ \E i \in 1..Len(b.obj["htmlContent"].s) :
                b.obj["htmlContent"].s[i] \in 55296..57343

FalseDeliveryError ==
    \A r \in Reqs :
        (pc[r] = "responded" /\ Unsendable(body[r])) <=>
            (resp[r].code = 500 /\ mailCalls[r] = <<>>)
====
